---- MODULE Spec2Model ----
(***************************************************************************)
(* Model of the WireMock stub-rule builder (stub_rule.go): the StubRule    *)
(* struct, its fluent builder methods, the matcher value objects, and the  *)
(* document StubRule.MarshalJSON hands to the JSON encoder.                *)
(*                                                                         *)
(* Go values are represented as follows.                                   *)
(*   pointer to int64 or string <<>> for nil, <<v>> for a pointer to v     *)
(*   map held in a struct field <<>> for the nil map, <<f>> for a map with *)
(*                              contents f (a function on its keys)        *)
(*   map[string]string argument <<>> for nil, <<id>> for a reference to    *)
(*                              the caller's map heap[id]                  *)
(*   slice                      a sequence (nil and empty are both <<>>)   *)
(* JSON values are represented as follows.                                 *)
(*   object   a function on its keys        array   a sequence             *)
(*   string   <<"string", s>>               number  <<"number", n>>        *)
(*   null     <<"null">>                                                   *)
(***************************************************************************)
EXTENDS Integers, Sequences, FiniteSets, TLC

VARIABLES
    request,                \* StubRule.request
    response,               \* StubRule.response
    priority,               \* StubRule.priority
    scenarioName,           \* StubRule.scenarioName
    requiredScenarioState,  \* StubRule.requiredScenarioState
    newScenarioState,       \* StubRule.newScenarioState
    heap,                   \* the caller's map[string]string objects
    ret,                    \* what the most recent call returned
    log,                    \* history: the arguments of the calls made so far
    ncalls                  \* number of state-changing calls made so far

vars == <<request, response, priority, scenarioName, requiredScenarioState,
          newScenarioState, heap, ret, log, ncalls>>

\* Longest sequence of state-changing calls explored.
MaxCalls == 3

-----------------------------------------------------------------------------
(* Constants of the package *)

ScenarioStateStarted == "Started"

StatusOK == 200

ParamEqualTo == "equalTo"
ParamMatches == "matches"
ParamContains == "contains"
ParamEqualToXml == "equalToXml"
ParamEqualToJson == "equalToJson"
ParamMatchesXPath == "matchesXPath"
ParamMatchesJsonPath == "matchesJsonPath"
ParamAbsent == "absent"
ParamDoesNotMatch == "doesNotMatch"

URLEqualToRule == "url"
URLPathEqualToRule == "urlPath"
URLPathMatchingRule == "urlPathPattern"
URLMatchingRule == "urlPattern"

MethodPost == "POST"
MethodGet == "GET"
MethodDelete == "DELETE"
MethodPut == "PUT"

-----------------------------------------------------------------------------
(* Matcher value objects *)

URLMatcher(strategy, value) == [strategy |-> strategy, value |-> value]
ParamMatcher(strategy, value) == [strategy |-> strategy, value |-> value]

Strategy(m) == m.strategy
Value(m) == m.value

URLEqualTo(url) == URLMatcher(URLEqualToRule, url)
URLPathEqualTo(url) == URLMatcher(URLPathEqualToRule, url)
URLPathMatching(url) == URLMatcher(URLPathMatchingRule, url)
URLMatching(url) == URLMatcher(URLMatchingRule, url)

EqualTo(param) == ParamMatcher(ParamEqualTo, param)
Matching(param) == ParamMatcher(ParamMatches, param)
Contains(param) == ParamMatcher(ParamContains, param)
EqualToXml(param) == ParamMatcher(ParamEqualToXml, param)
EqualToJson(param) == ParamMatcher(ParamEqualToJson, param)
MatchingXPath(param) == ParamMatcher(ParamMatchesXPath, param)
MatchingJsonPath(param) == ParamMatcher(ParamMatchesJsonPath, param)
NotMatching(param) == ParamMatcher(ParamDoesNotMatch, param)

-----------------------------------------------------------------------------
(* Inputs *)

\* The constructions explored: every constructor of rules once, every
\* constructor of URL matchers once, and the zero value URLMatcher{}.
Constructions ==
    {<<"Post", MethodPost, URLEqualTo("/a")>>,
     <<"Get", MethodGet, URLPathEqualTo("/a")>>,
     <<"Delete", MethodDelete, URLPathMatching("/a.*")>>,
     <<"Put", MethodPut, URLMatching("/a.*")>>,
     <<"NewStubRule", "PATCH", URLMatcher("", "")>>}

\* Names of headers, cookies and query parameters.
ParamNames == {"a", "b"}

\* Matchers given to WithHeader, WithCookie, WithQueryParam.
ParamMatchers == {EqualTo("x"), Matching("y")}

\* Matchers given to WithBodyPattern.
BodyMatchers == {EqualToJson("{}"), Contains("x")}

\* Arguments of WillReturn.
Bodies == {"", "{}"}
Statuses == {0, 201}
MapIds == {1}
HeaderArgs == {<<>>} \cup {<<id>> : id \in MapIds}

\* Keys and values the caller writes into its own maps.
HeaderNames == {"Content-Type"}
HeaderValues == {"text/plain", "application/json"}

\* Arguments of AtPriority.
Priorities == {0, 1}

\* Arguments of InScenario, WhenScenarioStateIs, WillSetStateTo.
States == {"", ScenarioStateStarted}

-----------------------------------------------------------------------------
(* Helpers for Go maps and JSON objects *)

EmptyMap == [k \in {} |-> TRUE]

\* m[k] = v
MapSet(m, k, v) == (k :> v) @@ m

JString(s) == <<"string", s>>
JNumber(n) == <<"number", n>>
JNull == <<"null">>

\* A map-typed struct field: its length, as len() gives it (0 for nil).
MapLen(f) == IF f = <<>> THEN 0 ELSE Cardinality(DOMAIN f[1])

\* The entries a range over a map-typed struct field visits.
MapKeys(f) == IF f = <<>> THEN {} ELSE DOMAIN f[1]

\* A map[string]string value dereferenced: its contents (none for nil).
Deref(h) == IF h = <<>> THEN EmptyMap ELSE heap[h[1]]

-----------------------------------------------------------------------------
(* Construction *)

\* NewStubRule without the default status.
NewStubRule_NoStatus(method, urlMatcher) ==
    /\ request = [urlMatcher |-> urlMatcher,
                  method |-> method,
                  headers |-> <<>>,
                  queryParams |-> <<>>,
                  cookies |-> <<>>,
                  bodyPatterns |-> <<>>]
    /\ response = [body |-> "", headers |-> <<>>, status |-> 0]
    /\ priority = <<>>
    /\ scenarioName = <<>>
    /\ requiredScenarioState = <<>>
    /\ newScenarioState = <<>>

NewStubRule(method, urlMatcher) ==
    /\ request = [urlMatcher |-> urlMatcher,
                  method |-> method,
                  headers |-> <<>>,
                  queryParams |-> <<>>,
                  cookies |-> <<>>,
                  bodyPatterns |-> <<>>]
    /\ response = [body |-> "", headers |-> <<>>, status |-> StatusOK]
    /\ priority = <<>>
    /\ scenarioName = <<>>
    /\ requiredScenarioState = <<>>
    /\ newScenarioState = <<>>

Post(urlMatchingPair) == NewStubRule(MethodPost, urlMatchingPair)
Get(urlMatchingPair) == NewStubRule(MethodGet, urlMatchingPair)
Delete(urlMatchingPair) == NewStubRule(MethodDelete, urlMatchingPair)
Put(urlMatchingPair) == NewStubRule(MethodPut, urlMatchingPair)

-----------------------------------------------------------------------------
(* Return values and the call history *)

\* The fields of the rule, and the maps its response may refer to.
Rule ==
    [request |-> request,
     response |-> response,
     priority |-> priority,
     scenarioName |-> scenarioName,
     requiredScenarioState |-> requiredScenarioState,
     newScenarioState |-> newScenarioState,
     heap |-> heap]

\* A builder method returns the rule it was called on.
RetRule == [kind |-> "rule", doc |-> EmptyMap, before |-> <<>>]
\* MarshalJSON returns the encoded document (and a nil error); `before` keeps
\* the rule as it was when MarshalJSON was called.
RetJSON(doc, before) == [kind |-> "json", doc |-> doc, before |-> <<before>>]
\* A statement of the caller that is not a call on the rule returns nothing.
RetNone == [kind |-> "none", doc |-> EmptyMap, before |-> <<>>]

\* The history of a rule on which no builder method was called yet.
NewLog(method, urlMatcher) ==
    [ctor |-> [method |-> method, urlMatcher |-> urlMatcher],
     priority |-> <<>>,
     scenarioName |-> <<>>,
     requiredScenarioState |-> <<>>,
     newScenarioState |-> <<>>,
     headers |-> EmptyMap,
     cookies |-> EmptyMap,
     queryParams |-> EmptyMap,
     bodyPatterns |-> <<>>,
     willReturn |-> <<>>,
     replaced |-> {}]

\* The history after a call that set the optional field `field` to `value`;
\* `replaced` collects the fields in which a call replaced what an earlier
\* call had set by something else.
LogSet(field, value) ==
    [log EXCEPT ![field] = <<value>>,
                !.replaced = IF log[field] # <<>> /\ log[field] # <<value>>
                             THEN @ \cup {field} ELSE @]

\* The history after a call that gave `matcher` for `name` in the family
\* `field` (headers, cookies, queryParams).
LogParam(field, name, matcher) ==
    [log EXCEPT ![field] = MapSet(@, name, matcher),
                !.replaced = IF /\ name \in DOMAIN log[field]
                                /\ log[field][name] # matcher
                             THEN @ \cup {field} ELSE @]

\* The history after WithBodyPattern(matcher).
LogBodyPattern(matcher) == [log EXCEPT !.bodyPatterns = Append(@, matcher)]

\* The history after WillReturn(body, headers, status): the three arguments,
\* and what the mapping `headers` held when the call was made.
LogWillReturn(body, headers, status) ==
    LogSet("willReturn", [body |-> body, headers |-> headers,
                          status |-> status, given |-> Deref(headers)])

\* One more state-changing call, which returned the rule.
Called == /\ ncalls < MaxCalls
          /\ ncalls' = ncalls + 1
          /\ ret' = RetRule

Init ==
    /\ \E c \in Constructions :
          /\ CASE c[1] = "Post" -> Post(c[3])
               [] c[1] = "Get" -> Get(c[3])
               [] c[1] = "Delete" -> Delete(c[3])
               [] c[1] = "Put" -> Put(c[3])
               [] OTHER -> NewStubRule(c[2], c[3])
          /\ log = NewLog(c[2], c[3])
    /\ heap = [id \in MapIds |-> EmptyMap]
    /\ ret = RetRule
    /\ ncalls = 0

-----------------------------------------------------------------------------
(* Builder methods *)

\* The map of a map-typed field after the lazy creation of lines 62-64.
Made(f) == IF f = <<>> THEN EmptyMap ELSE f[1]

WithQueryParam(param, matcher) ==
    /\ Called
    /\ request' = [request EXCEPT
                      !.queryParams = <<MapSet(Made(@), param, matcher)>>]
    /\ log' = LogParam("queryParams", param, matcher)
    /\ UNCHANGED <<response, priority, scenarioName, requiredScenarioState,
                   newScenarioState, heap>>

WithHeader(header, matcher) ==
    /\ Called
    /\ request' = [request EXCEPT
                      !.headers = <<MapSet(Made(@), header, matcher)>>]
    /\ log' = LogParam("headers", header, matcher)
    /\ UNCHANGED <<response, priority, scenarioName, requiredScenarioState,
                   newScenarioState, heap>>

\* WithCookie writing into the header map.
WithCookie_IntoHeaders(cookie, matcher) ==
    /\ Called
    /\ request' = [request EXCEPT
                      !.headers = <<MapSet(Made(@), cookie, matcher)>>]
    /\ log' = LogParam("cookies", cookie, matcher)
    /\ UNCHANGED <<response, priority, scenarioName, requiredScenarioState,
                   newScenarioState, heap>>

WithCookie(cookie, matcher) ==
    /\ Called
    /\ request' = [request EXCEPT
                      !.cookies = <<MapSet(Made(@), cookie, matcher)>>]
    /\ log' = LogParam("cookies", cookie, matcher)
    /\ UNCHANGED <<response, priority, scenarioName, requiredScenarioState,
                   newScenarioState, heap>>

\* WithBodyPattern dropping a matcher the sequence already holds.
WithBodyPattern_Dedup(matcher) ==
    /\ Called
    /\ request' = [request EXCEPT
                      !.bodyPatterns =
                          IF \E i \in 1..Len(@) : @[i] = matcher
                          THEN @ ELSE Append(@, matcher)]
    /\ log' = LogBodyPattern(matcher)
    /\ UNCHANGED <<response, priority, scenarioName, requiredScenarioState,
                   newScenarioState, heap>>

WithBodyPattern(matcher) ==
    /\ Called
    /\ request' = [request EXCEPT !.bodyPatterns = Append(@, matcher)]
    /\ log' = LogBodyPattern(matcher)
    /\ UNCHANGED <<response, priority, scenarioName, requiredScenarioState,
                   newScenarioState, heap>>

\* WillReturn keeping the earlier headers when given nil.
WillReturn_KeepHeaders(body, headers, status) ==
    /\ Called
    /\ response' = [body |-> body,
                    headers |-> IF headers = <<>> THEN response.headers
                                ELSE headers,
                    status |-> status]
    /\ log' = LogWillReturn(body, headers, status)
    /\ UNCHANGED <<request, priority, scenarioName, requiredScenarioState,
                   newScenarioState, heap>>

WillReturn(body, headers, status) ==
    /\ Called
    /\ response' = [body |-> body, headers |-> headers, status |-> status]
    /\ log' = LogWillReturn(body, headers, status)
    /\ UNCHANGED <<request, priority, scenarioName, requiredScenarioState,
                   newScenarioState, heap>>

\* AtPriority treating 0 as "no priority".
AtPriority_ZeroUnset(p) ==
    /\ Called
    /\ priority' = IF p = 0 THEN <<>> ELSE <<p>>
    /\ log' = LogSet("priority", p)
    /\ UNCHANGED <<request, response, scenarioName, requiredScenarioState,
                   newScenarioState, heap>>

AtPriority(p) ==
    /\ Called
    /\ priority' = <<p>>
    /\ log' = LogSet("priority", p)
    /\ UNCHANGED <<request, response, scenarioName, requiredScenarioState,
                   newScenarioState, heap>>

InScenario(name) ==
    /\ Called
    /\ scenarioName' = <<name>>
    /\ log' = LogSet("scenarioName", name)
    /\ UNCHANGED <<request, response, priority, requiredScenarioState,
                   newScenarioState, heap>>

\* WhenScenarioStateIs assigning the field of WillSetStateTo.
WhenScenarioStateIs_WrongField(scenarioState) ==
    /\ Called
    /\ newScenarioState' = <<scenarioState>>
    /\ log' = LogSet("requiredScenarioState", scenarioState)
    /\ UNCHANGED <<request, response, priority, scenarioName,
                   requiredScenarioState, heap>>

WhenScenarioStateIs(scenarioState) ==
    /\ Called
    /\ requiredScenarioState' = <<scenarioState>>
    /\ log' = LogSet("requiredScenarioState", scenarioState)
    /\ UNCHANGED <<request, response, priority, scenarioName,
                   newScenarioState, heap>>

WillSetStateTo(scenarioState) ==
    /\ Called
    /\ newScenarioState' = <<scenarioState>>
    /\ log' = LogSet("newScenarioState", scenarioState)
    /\ UNCHANGED <<request, response, priority, scenarioName,
                   requiredScenarioState, heap>>

\* The caller assigns h[name] = value in a map it holds (and may have passed
\* to WillReturn: a Go map value is a reference to the map).
CallerWritesMap(id, name, value) ==
    /\ ncalls < MaxCalls
    /\ ncalls' = ncalls + 1
    /\ heap' = [heap EXCEPT ![id] = MapSet(@, name, value)]
    /\ ret' = RetNone
    /\ UNCHANGED <<request, response, priority, scenarioName,
                   requiredScenarioState, newScenarioState, log>>

-----------------------------------------------------------------------------
(* Serialization *)

\* {strategy: value}
Single(matcher) ==
    MapSet(EmptyMap, Strategy(matcher), JString(Value(matcher)))

\* The map literal with the URL value always under the key "url".
reqLiteral_FixedURLKey(r) ==
    MapSet(MapSet(EmptyMap, "method", JString(r.method)),
           URLEqualToRule, JString(Value(r.urlMatcher)))

\* The map literal of lines 181-184: the method, and the URL matcher's value
\* under the key its strategy names.
reqLiteral(r) ==
    MapSet(MapSet(EmptyMap, "method", JString(r.method)),
           Strategy(r.urlMatcher), JString(Value(r.urlMatcher)))

mapFrom(r) ==
    LET req0 == reqLiteral(r)
        req1 == IF Len(r.bodyPatterns) > 0
                THEN MapSet(req0, "bodyPatterns",
                            [i \in 1..Len(r.bodyPatterns) |->
                                Single(r.bodyPatterns[i])])
                ELSE req0
        req2 == IF MapLen(r.headers) > 0
                THEN MapSet(req1, "headers",
                            [key \in MapKeys(r.headers) |->
                                Single(r.headers[1][key])])
                ELSE req1
        req3 == IF MapLen(r.cookies) > 0
                THEN MapSet(req2, "cookies",
                            [key \in MapKeys(r.cookies) |->
                                Single(r.cookies[1][key])])
                ELSE req2
        req4 == IF MapLen(r.queryParams) > 0
                THEN MapSet(req3, "queryParameters",
                            [key \in MapKeys(r.queryParams) |->
                                Single(r.queryParams[1][key])])
                ELSE req3
    IN req4

\* A struct field tagged omitempty is left out when its value is empty: a nil
\* pointer, a string or map of length 0, the number 0.
OmitEmpty(obj, key, empty, value) ==
    IF empty THEN obj ELSE MapSet(obj, key, value)

\* The encodings of the field types of the anonymous struct.
EncodeInt64Ptr(p) == IF p = <<>> THEN JNull ELSE JNumber(p[1])
EncodeStringPtr(p) == IF p = <<>> THEN JNull ELSE JString(p[1])
EncodeStringMap(h) ==
    IF h = <<>> THEN JNull
    ELSE [name \in DOMAIN Deref(h) |-> JString(Deref(h)[name])]

\* The document MarshalJSON encodes: the anonymous struct filled from the rule
\* and encoded field by field in declaration order.
jsonStubRule ==
    LET Response ==
            LET b == OmitEmpty(EmptyMap, "body", response.body = "",
                               JString(response.body))
                h == OmitEmpty(b, "headers",
                               Cardinality(DOMAIN Deref(response.headers)) = 0,
                               EncodeStringMap(response.headers))
            IN OmitEmpty(h, "status", response.status = 0,
                         JNumber(response.status))
        j1 == OmitEmpty(EmptyMap, "priority", priority = <<>>,
                        EncodeInt64Ptr(priority))
        j2 == OmitEmpty(j1, "scenarioName", scenarioName = <<>>,
                        EncodeStringPtr(scenarioName))
        j3 == OmitEmpty(j2, "requiredScenarioState",
                        requiredScenarioState = <<>>,
                        EncodeStringPtr(requiredScenarioState))
        j4 == OmitEmpty(j3, "newScenarioState", newScenarioState = <<>>,
                        EncodeStringPtr(newScenarioState))
        j5 == MapSet(j4, "request", mapFrom(request))
    IN MapSet(j5, "response", Response)

\* MarshalJSON storing the default status into a rule whose status is 0.
MarshalJSON_StoresDefault ==
    /\ response' = [response EXCEPT
                       !.status = IF @ = 0 THEN StatusOK ELSE @]
    /\ UNCHANGED <<request, priority, scenarioName, requiredScenarioState,
                   newScenarioState, heap, log, ncalls>>
    /\ ret' = RetJSON(jsonStubRule', Rule)

MarshalJSON ==
    /\ ret' = RetJSON(jsonStubRule, Rule)
    /\ UNCHANGED <<request, response, priority, scenarioName,
                   requiredScenarioState, newScenarioState, heap, log, ncalls>>

-----------------------------------------------------------------------------
(* Specification *)

Next ==
    \/ \E param \in ParamNames, matcher \in ParamMatchers :
          WithQueryParam(param, matcher)
    \/ \E header \in ParamNames, matcher \in ParamMatchers :
          WithHeader(header, matcher)
    \/ \E cookie \in ParamNames, matcher \in ParamMatchers :
          WithCookie(cookie, matcher)
    \/ \E matcher \in BodyMatchers : WithBodyPattern(matcher)
    \/ \E body \in Bodies, headers \in HeaderArgs, status \in Statuses :
          WillReturn(body, headers, status)
    \/ \E p \in Priorities : AtPriority(p)
    \/ \E name \in States : InScenario(name)
    \/ \E scenarioState \in States : WhenScenarioStateIs(scenarioState)
    \/ \E scenarioState \in States : WillSetStateTo(scenarioState)
    \/ \E id \in MapIds, name \in HeaderNames, value \in HeaderValues :
          CallerWritesMap(id, name, value)
    \/ MarshalJSON

Spec == Init /\ [][Next]_vars

-----------------------------------------------------------------------------
(* The serialized document and its parts *)

\* The object under `key` of `obj`, or no entries when the key is absent.
Under(obj, key) == IF key \in DOMAIN obj THEN obj[key] ELSE EmptyMap

\* `obj` is the single-entry object {strategy-tag: value} of `matcher`.
IsSingle(obj, matcher) ==
    /\ DOMAIN obj = {matcher.strategy}
    /\ obj[matcher.strategy] = JString(matcher.value)

\* MarshalJSON was the most recent call.
Serialized == ret.kind = "json"

\* The keys mapFrom adds to the request object besides the URL key.
RequestKeys == {"method", "bodyPatterns", "headers", "cookies", "queryParameters"}

-----------------------------------------------------------------------------
(* C1 *)

\* C1 (as claimed): in every reachable state the serialized response object
\* contains the key "status", holding the rule's current status value.
C1_StatusAlwaysPresent ==
    LET resp == jsonStubRule["response"]
    IN /\ "status" \in DOMAIN resp
       /\ resp["status"] = JNumber(response.status)

-----------------------------------------------------------------------------
(* C2 *)

\* The top-level string field `key` of `doc` is absent when its setter was
\* never called, and holds the argument of the most recent call when it was.
ScenarioFieldVerbatim(doc, key, last) ==
    IF last = <<>>
    THEN key \notin DOMAIN doc
    ELSE key \in DOMAIN doc /\ doc[key] = JString(last[1])

ScenarioFields ==
    {<<"scenarioName", log.scenarioName>>,
     <<"requiredScenarioState", log.requiredScenarioState>>,
     <<"newScenarioState", log.newScenarioState>>}

\* C2 (as claimed): each scenario field is omitted when its setter was never
\* called, emitted verbatim with the value of the most recent call when it
\* was, and never emitted as null or as an empty string.
C2_ScenarioNeverNullOrEmpty ==
    LET doc == jsonStubRule
    IN \A f \in ScenarioFields :
          /\ ScenarioFieldVerbatim(doc, f[1], f[2])
          /\ f[1] \in DOMAIN doc => doc[f[1]] \notin {JNull, JString("")}

\* C2 (amended): each scenario field is omitted when its setter was never
\* called, emitted verbatim with the value of the most recent call when it
\* was, never emitted as null, and emitted as an empty string exactly when
\* the most recent call of its setter was given the empty string.
C2_ScenarioVerbatim ==
    LET doc == jsonStubRule
    IN \A f \in ScenarioFields :
          /\ ScenarioFieldVerbatim(doc, f[1], f[2])
          /\ f[1] \in DOMAIN doc => doc[f[1]] # JNull
          /\ (f[1] \in DOMAIN doc /\ doc[f[1]] = JString("")) <=> f[2] = <<"">>

\* C2 witness: a serialized rule whose scenario name was set twice and is
\* now the empty string, whose required state is "Started", and whose new
\* state was never set.
C2_Witness ==
    /\ Serialized
    /\ "scenarioName" \in log.replaced
    /\ log.scenarioName = <<"">>
    /\ log.requiredScenarioState = <<ScenarioStateStarted>>
    /\ log.newScenarioState = <<>>
    /\ ret.doc["scenarioName"] = JString("")
    /\ ret.doc["requiredScenarioState"] = JString(ScenarioStateStarted)
    /\ "newScenarioState" \notin DOMAIN ret.doc

-----------------------------------------------------------------------------
(* C3 *)

\* C3: "priority" is present in the serialized document if and only if
\* AtPriority was called, and then holds the argument of the most recent
\* call (0 included).
C3_PriorityIffCalled ==
    LET doc == jsonStubRule
    IN IF log.priority = <<>>
       THEN "priority" \notin DOMAIN doc
       ELSE /\ "priority" \in DOMAIN doc
            /\ doc["priority"] = JNumber(log.priority[1])

\* C3 witness: a serialized rule on which AtPriority(0) replaced an earlier
\* priority, and whose document holds "priority": 0.
C3_Witness ==
    /\ Serialized
    /\ "priority" \in log.replaced
    /\ log.priority = <<0>>
    /\ ret.doc["priority"] = JNumber(0)

-----------------------------------------------------------------------------
(* C4 *)

\* The request object's `key` holds, for every name set in the family, the
\* single-entry object of the matcher last given for it, and nothing else.
FamilyIsLastWrites(req, key, last) ==
    IF DOMAIN last = {}
    THEN key \notin DOMAIN req
    ELSE /\ key \in DOMAIN req
         /\ DOMAIN req[key] = DOMAIN last
         /\ \A name \in DOMAIN last : IsSingle(req[key][name], last[name])

\* C4: after any sequence of WithHeader, WithCookie and WithQueryParam calls
\* each of "headers", "cookies" and "queryParameters" holds exactly the last
\* write for every name set in its own family.
C4_LastWriteWins ==
    LET req == mapFrom(request)
    IN /\ jsonStubRule["request"] = req
       /\ FamilyIsLastWrites(req, "headers", log.headers)
       /\ FamilyIsLastWrites(req, "cookies", log.cookies)
       /\ FamilyIsLastWrites(req, "queryParameters", log.queryParams)

\* C4 witness: a serialized rule in which a header was set twice with
\* different matchers and a cookie of the same name was set as well.
C4_Witness ==
    /\ Serialized
    /\ "headers" \in log.replaced
    /\ \E name \in DOMAIN log.headers \cap DOMAIN log.cookies :
          /\ log.headers[name] # log.cookies[name]
          /\ IsSingle(ret.doc["request"]["headers"][name], log.headers[name])
          /\ IsSingle(ret.doc["request"]["cookies"][name], log.cookies[name])
    /\ "queryParameters" \notin DOMAIN ret.doc["request"]

-----------------------------------------------------------------------------
(* C5 *)

\* C5: "bodyPatterns" is omitted when WithBodyPattern was never called, and
\* is otherwise the sequence of the single-entry objects of the matchers
\* given, one per call, in the order of the calls.
C5_BodyPatternsInOrder ==
    LET req == jsonStubRule["request"]
    IN IF log.bodyPatterns = <<>>
       THEN "bodyPatterns" \notin DOMAIN req
       ELSE /\ "bodyPatterns" \in DOMAIN req
            /\ DOMAIN req["bodyPatterns"] = 1..Len(log.bodyPatterns)
            /\ \A i \in 1..Len(log.bodyPatterns) :
                  IsSingle(req["bodyPatterns"][i], log.bodyPatterns[i])

\* C5 witness: a serialized rule given three body patterns, the first and
\* the third identical and the second different.
C5_Witness ==
    /\ Serialized
    /\ Len(log.bodyPatterns) = 3
    /\ log.bodyPatterns[1] = log.bodyPatterns[3]
    /\ log.bodyPatterns[1] # log.bodyPatterns[2]
    /\ DOMAIN ret.doc["request"]["bodyPatterns"] = 1..3

\* Body patterns given before and after another builder call, serialized.
C5_Interleaved ==
    /\ Serialized
    /\ Len(log.bodyPatterns) = 2
    /\ log.priority # <<>>
    /\ DOMAIN ret.doc["request"]["bodyPatterns"] = 1..2

-----------------------------------------------------------------------------
(* C6 *)

\* C6: the rule has exactly the method and URL matcher given at
\* construction, the request object holds "method" with that method, and
\* exactly one URL key, named by the matcher's strategy and holding its value.
C6_MethodAndURLFixed ==
    LET req == jsonStubRule["request"]
    IN /\ request.method = log.ctor.method
       /\ request.urlMatcher = log.ctor.urlMatcher
       /\ "method" \in DOMAIN req
       /\ req["method"] = JString(log.ctor.method)
       /\ (DOMAIN req) \ RequestKeys = {log.ctor.urlMatcher.strategy}
       /\ req[log.ctor.urlMatcher.strategy] = JString(log.ctor.urlMatcher.value)

\* C6 witness: a serialized rule built by a constructor of a URL strategy
\* other than "url", after builder calls on its request and its response.
C6_Witness ==
    /\ Serialized
    /\ log.ctor.urlMatcher.strategy = URLPathMatchingRule
    /\ log.headers # EmptyMap
    /\ log.bodyPatterns # <<>>
    /\ log.willReturn # <<>>
    /\ URLPathMatchingRule \in DOMAIN ret.doc["request"]

-----------------------------------------------------------------------------
(* C7 *)

\* No optional builder method was called on the rule.
NothingSet ==
    /\ log.priority = <<>>
    /\ log.scenarioName = <<>>
    /\ log.requiredScenarioState = <<>>
    /\ log.newScenarioState = <<>>
    /\ log.headers = EmptyMap
    /\ log.cookies = EmptyMap
    /\ log.queryParams = EmptyMap
    /\ log.bodyPatterns = <<>>
    /\ log.willReturn = <<>>

\* C7: a rule built with no optional builder call serializes to a document
\* holding only "request" (method and URL key) and "response" (status 200).
C7_DefaultDocument ==
    NothingSet =>
        LET doc == jsonStubRule
        IN /\ DOMAIN doc = {"request", "response"}
           /\ DOMAIN doc["request"] = {"method", log.ctor.urlMatcher.strategy}
           /\ DOMAIN doc["response"] = {"status"}
           /\ doc["response"]["status"] = JNumber(200)

\* C7 witness: a freshly constructed rule, serialized.
C7_Witness ==
    /\ Serialized
    /\ NothingSet
    /\ ncalls = 0
    /\ DOMAIN ret.doc = {"request", "response"}

-----------------------------------------------------------------------------
(* C8 *)

\* The response fields the history gives: the arguments of the most recent
\* WillReturn, or the defaults of construction.
ExpectedResponse ==
    IF log.willReturn = <<>>
    THEN [body |-> "", headers |-> <<>>, status |-> 200]
    ELSE [body |-> log.willReturn[1].body,
          headers |-> log.willReturn[1].headers,
          status |-> log.willReturn[1].status]

\* C8: the rule's response body, headers and status are exactly the three
\* arguments of the most recent WillReturn call (status 200, empty body, no
\* headers if there was none), and the serialized body and status, when
\* present, are those.
C8_ResponseIsLastWillReturn ==
    LET resp == jsonStubRule["response"]
        expected == ExpectedResponse
    IN /\ response = expected
       /\ "body" \in DOMAIN resp => resp["body"] = JString(expected.body)
       /\ "status" \in DOMAIN resp => resp["status"] = JNumber(expected.status)
       /\ expected.headers = <<>> => "headers" \notin DOMAIN resp

\* C8 witness: WillReturn with a non-empty mapping, then WillReturn with an
\* empty body and nil headers: the document keeps neither body nor headers.
C8_Witness ==
    /\ Serialized
    /\ "willReturn" \in log.replaced
    /\ heap[1] # EmptyMap
    /\ log.willReturn[1].body = ""
    /\ log.willReturn[1].headers = <<>>
    /\ log.willReturn[1].status = 201
    /\ DOMAIN ret.doc["response"] = {"status"}

-----------------------------------------------------------------------------
(* C9 *)

\* C9: when MarshalJSON has returned, every field of the rule (and every
\* map of the caller) is as it was when MarshalJSON was called, and the
\* document returned is the one the rule serializes to now, so a second
\* serialization returns the same document.
C9_SerializationReadsOnly ==
    Serialized =>
        /\ <<Rule>> = ret.before
        /\ ret.doc = jsonStubRule

\* C9 witness: a serialized rule with a body pattern, a header and a
\* response set by WillReturn.
C9_Witness ==
    /\ Serialized
    /\ log.bodyPatterns # <<>>
    /\ log.headers # EmptyMap
    /\ log.willReturn # <<>>
    /\ ret.before = <<Rule>>

-----------------------------------------------------------------------------
(* C10 *)

\* C10 (as claimed): after WillReturn(body, headers, status) the response
\* headers the rule serializes are those the mapping held when it was
\* passed in, whatever the caller does to the mapping afterwards.
C10_ResponseHeadersOwned ==
    log.willReturn # <<>> =>
        Under(jsonStubRule["response"], "headers") =
            [name \in DOMAIN log.willReturn[1].given |->
                JString(log.willReturn[1].given[name])]

====
